---- MODULE Spec2Model ----
(***************************************************************************)
(* zeppelin_cli: the run of `main` (src/src/main.rs) as a state machine.   *)
(*                                                                         *)
(* One run is modelled from the point where the command line has been      *)
(* parsed into Args.  The main thread walks through its steps (pc); the    *)
(* worker thread, once spawned, runs the engine call concurrently.         *)
(* File-system answers, prompt answers, terminal I/O results and the       *)
(* engine's result are inputs chosen with \E at the step that asks.        *)
(*                                                                         *)
(* A path is a sequence of tokens; the token "." is a dot, every other     *)
(* token is a dot-free, separator-free piece of a file name.  All paths of *)
(* the model have a single component.                                      *)
(***************************************************************************)
EXTENDS Integers, Sequences, FiniteSets, TLC

\* ------------------------------------------------------------------ bounds
\* Renders counted before the counter saturates.
MaxRenders == 2
\* Stage labels the engine writes through its progress handle.
MaxLabels == 1
\* Largest number typed into a Custom cost prompt (usize: 0 is accepted).
MaxCustom == 1

\* ------------------------------------------------------- program constants
\* Exit code of a Rust process whose main thread panicked.
PanicExitCode == 101
\* Number of entries of `choices`.
NumChoices == 4

\* ------------------------------------------------------------------- paths
Dot == "."
ZEP == <<"zep">>
UNZEP == <<"unzep">>
Empty == <<>>

\* args.file as given on the command line.
InputPaths ==
    { <<"a">>, <<"a", Dot, "zep">>, <<"a", Dot, "txt">>,
      <<Dot, Dot>>, <<Dot, "zep">>, <<"a", Dot>>, <<"a", Dot, "ZEP">> }

\* args.output: absent, or an explicit path.
NoOutput == [given |-> FALSE, path |-> Empty]
OutputArgs ==
    {NoOutput} \cup
    { [given |-> TRUE, path |-> p] : p \in { <<"a">>, <<"a", Dot, "zep">>, <<"b">> } }

\* Path::file_name: None for "." and "..".
HasFileName(p) == p # Empty /\ p # <<Dot>> /\ p # <<Dot, Dot>>

\* Index of the last dot of a name, 0 if there is none.
LastDot(p) ==
    IF \E i \in 1..Len(p) : p[i] = Dot
    THEN CHOOSE i \in 1..Len(p) : p[i] = Dot /\ \A j \in (i+1)..Len(p) : p[j] # Dot
    ELSE 0

\* Path::extension: None without a file name, without a dot, or when the only
\* dot is the leading one; otherwise what follows the last dot.
Extension(p) ==
    IF HasFileName(p) /\ LastDot(p) > 1
    THEN [some |-> TRUE, ext |-> SubSeq(p, LastDot(p) + 1, Len(p))]
    ELSE [some |-> FALSE, ext |-> Empty]

\* Path::file_stem.
FileStem(p) == IF LastDot(p) > 1 THEN SubSeq(p, 1, LastDot(p) - 1) ELSE p

\* PathBuf::set_extension: does nothing without a file name; otherwise the
\* stem followed by "." and the extension, or the stem alone for "".
SetExtension(p, ext) ==
    IF ~HasFileName(p) THEN p
    ELSE IF ext = Empty THEN FileStem(p)
    ELSE FileStem(p) \o <<Dot>> \o ext

\* append_extension: the whole path, a dot, the extension.
append_extension(p, ext) == p \o <<Dot>> \o ext

\* Any extension taken for the container extension.
IsZepAnyExtension(e) == e.some

\* extension == "zep"
IsZep(e) == e.some /\ e.ext = ZEP

\* The decrypt flag of lines 109-118.
ResolveDecrypt(file, flag) == IsZep(Extension(file)) \/ flag

\* output_path of lines 129-150.
DerivedOutput(file, dec) ==
    IF dec
    THEN IF Extension(file).some
         THEN IF Extension(file).ext = ZEP
              THEN SetExtension(file, Empty)
              ELSE append_extension(file, UNZEP)
         ELSE SetExtension(file, UNZEP)
    ELSE append_extension(file, ZEP)

ChooseOutputPath(a, dec) ==
    IF a.output.given THEN a.output.path ELSE DerivedOutput(a.file, dec)

\* PathBuf == of line 155 (single-component paths: the same tokens).
SamePathNever(p, q) == FALSE
SamePath(p, q) == p = q

\* Path::exists for the input: "." and ".." always exist.
ExistsOutcomes(p) == IF HasFileName(p) THEN BOOLEAN ELSE {TRUE}

\* ---------------------------------------------------------------- statuses
NoStatus == [tag |-> "None", reason |-> ""]
StatusOk == [tag |-> "Ok", reason |-> ""]
StatusErr(reason) == [tag |-> "Err", reason |-> reason]
StatusFileNotFound == [tag |-> "FileNotFound", reason |-> ""]

\* The exit code `report` returns for a status.
ExitCodeOf(s) ==
    IF s.tag = "Ok" THEN 0
    ELSE IF s.tag = "Err" THEN 1
    ELSE 2

\* --------------------------------------------------------------- settings
NoSettings == [kind |-> "none", s_cost |-> -1, t_cost |-> -1, step_delta |-> -1]
\* CryptSettings::default_for_testing() and ::default(): values of the engine
\* crate, carried by name.
TestingSettings == [kind |-> "default_for_testing", s_cost |-> -1, t_cost |-> -1, step_delta |-> -1]
DefaultSettings == [kind |-> "default", s_cost |-> -1, t_cost |-> -1, step_delta |-> -1]
\* The Strong entry without the factor 10.
StrongSettingsUnscaled == [kind |-> "literal", s_cost |-> 468750, t_cost |-> 3, step_delta |-> 4]
StrongSettings == [kind |-> "literal", s_cost |-> 468750 * 10, t_cost |-> 3, step_delta |-> 4]
CustomSettings(s, t, d) == [kind |-> "literal", s_cost |-> s, t_cost |-> t, step_delta |-> d]

\* Numbers a Custom prompt can return.
CustomValues == 0..MaxCustom

\* ----------------------------------------------------- worker classification
\* What read_container / create_container can return.
DecryptResults == {"OkTrue", "OkFalse", "ErrIo", "ErrCorrupt"}
EncryptResults == {"Ok", "ErrIo"}

\* Closure of lines 200-212.
DecryptStatusIgnoringFlag(res) ==
    IF res \in {"OkTrue", "OkFalse"} THEN StatusOk
    ELSE StatusErr("Container invalid!")
DecryptStatus(res) ==
    IF res \in {"OkTrue", "OkFalse"}
    THEN IF res = "OkTrue" THEN StatusOk ELSE StatusErr("Wrong password!")
    ELSE StatusErr("Container invalid!")

\* Closure of lines 280-288.
EncryptStatus(res) ==
    IF res = "Ok" THEN StatusOk ELSE StatusErr("Unable to create container!")

\* -------------------------------------------------------------------- state
VARIABLES
    args,          \* [file, output, decrypt]: the parsed command line
    pc,            \* position of the main thread
    decrypt,       \* the resolved mode flag
    output_path,   \* the chosen output path (Empty before it is chosen)
    fileExisted,   \* answer of file.exists(): "unchecked", "yes", "no"
    outExisted,    \* answer of output_path.exists()
    confirmation,  \* answer of the overwrite prompt: "none", "yes", "no", "err"
    destCreates,   \* successful fs::File::create calls on the destination
    keyRead,       \* the password prompt returned a password
    choice,        \* the menu index, -1 before the menu
    s_cost,        \* local of the Custom branch, -1 when unset
    t_cost,        \* local of the Custom branch, -1 when unset
    settings,      \* the CryptSettings built for the engine
    failedPrompt,  \* the prompt whose interact() returned Err, "none" if none
    progress,      \* the shared progress state: [label, writer]
    writers,       \* the threads that have written the progress state
    worker,        \* "none", "running", "finished", "panicked"
    spawns,        \* thread::spawn calls
    engineResult,  \* what the engine call returned ("none" before)
    engineSettings,\* the settings create_container received
    threadResult,  \* the MainStatus the worker closure returned
    labels,        \* stage labels written by the engine so far
    cursorHidden,  \* terminal state
    renders,       \* progress bars drawn (saturates at MaxRenders)
    rendersAfterFinish, \* renders started after the worker terminated
    lastRendered,  \* the label of the last progress bar drawn, -1 if none
    status,        \* the MainStatus main returned
    cleanupCalls,  \* calls of clean_terminal
    reports,       \* status messages printed
    message,       \* the message printed
    exitCode,      \* the process exit code, -1 while running
    log            \* the steps of the main thread, in order

vars == << args, pc, decrypt, output_path, fileExisted, outExisted, confirmation,
           destCreates, keyRead, choice, s_cost, t_cost, settings, failedPrompt, progress,
           writers, worker, spawns, engineResult, engineSettings, threadResult,
           labels, cursorHidden, renders, rendersAfterFinish, lastRendered, status,
           cleanupCalls, reports, message, exitCode, log >>

\* Groups used in UNCHANGED.
pathVars == << decrypt, output_path, fileExisted, outExisted, confirmation, destCreates >>
promptVars == << keyRead, choice, s_cost, t_cost, settings, failedPrompt >>
workerVars == << worker, spawns, engineResult, engineSettings, threadResult, labels >>
progressVars == << progress, writers >>
termVars == << cursorHidden, renders, rendersAfterFinish, lastRendered >>
endVars == << status, cleanupCalls, reports, message, exitCode >>

Init ==
    /\ args \in [file : InputPaths, output : OutputArgs, decrypt : BOOLEAN]
    /\ pc = "check_exists"
    /\ decrypt = FALSE
    /\ output_path = Empty
    /\ fileExisted = "unchecked"
    /\ outExisted = "unchecked"
    /\ confirmation = "none"
    /\ destCreates = 0
    /\ keyRead = FALSE
    /\ choice = -1
    /\ s_cost = -1
    /\ t_cost = -1
    /\ settings = NoSettings
    /\ failedPrompt = "none"
    /\ progress = [label |-> -1, writer |-> "none"]
    /\ writers = {}
    /\ worker = "none"
    /\ spawns = 0
    /\ engineResult = "none"
    /\ engineSettings = NoSettings
    /\ threadResult = NoStatus
    /\ labels = 0
    /\ cursorHidden = FALSE
    /\ renders = 0
    /\ rendersAfterFinish = 0
    /\ lastRendered = -1
    /\ status = NoStatus
    /\ cleanupCalls = 0
    /\ reports = 0
    /\ message = ""
    /\ exitCode = -1
    /\ log = <<>>

\* `return s` from main: the status goes to Termination::report.
Return(s) ==
    /\ status' = s
    /\ pc' = "report"
    /\ UNCHANGED << cleanupCalls, reports, message, exitCode >>

\* An `unwrap()` on an Err in the main thread: the process dies with the
\* panic exit code; main returns no status and `report` never runs.
Panic ==
    /\ pc' = "crashed"
    /\ exitCode' = PanicExitCode
    /\ UNCHANGED << status, cleanupCalls, reports, message >>

\* The main thread goes on to the next step.
Goto(next) ==
    /\ pc' = next
    /\ UNCHANGED endVars

Step(name) == log' = Append(log, name)

\* ------------------------------------------------------- main: lines 102-191
\* if !file.exists() { return FileNotFound }
CheckExists ==
    /\ pc = "check_exists"
    /\ Step("exists")
    /\ \E e \in ExistsOutcomes(args.file) :
        /\ fileExisted' = IF e THEN "yes" ELSE "no"
        /\ IF e THEN Goto("resolve_mode") ELSE Return(StatusFileNotFound)
    /\ UNCHANGED << args, decrypt, output_path, outExisted, confirmation, destCreates,
                    promptVars, workerVars, progressVars, termVars >>

\* let mut decrypt = extension == "zep"; if args.decrypt { decrypt = true }
ResolveMode ==
    /\ pc = "resolve_mode"
    /\ Step("mode")
    /\ decrypt' = ResolveDecrypt(args.file, args.decrypt)
    /\ Goto("open")
    /\ UNCHANGED << args, output_path, fileExisted, outExisted, confirmation, destCreates,
                    promptVars, workerVars, progressVars, termVars >>

\* fs::File::open(file)
OpenInput ==
    /\ pc = "open"
    /\ Step("open")
    /\ \E ok \in BOOLEAN :
        IF ok THEN Goto("choose_output") ELSE Return(StatusErr("Unable to open file"))
    /\ UNCHANGED << args, pathVars, promptVars, workerVars, progressVars, termVars >>

\* let output_path = ...
ChooseOutput ==
    /\ pc = "choose_output"
    /\ Step("derive")
    /\ output_path' = ChooseOutputPath(args, decrypt)
    /\ Goto("sanity")
    /\ UNCHANGED << args, decrypt, fileExisted, outExisted, confirmation, destCreates,
                    promptVars, workerVars, progressVars, termVars >>

\* if output_path == args.file { return Err }
SanityCheck ==
    /\ pc = "sanity"
    /\ Step("equal")
    /\ IF SamePath(output_path, args.file)
       THEN Return(StatusErr("Input and output file should be different"))
       ELSE Goto("confirm")
    /\ UNCHANGED << args, pathVars, promptVars, workerVars, progressVars, termVars >>

\* The Confirm prompt: Ok(true), Ok(false) or Err.
ConfirmAnswers == {"yes", "no", "err"}

\* The overwrite prompt asked once more after a failed read.
AfterConfirmRetryOnce(answer) ==
    IF answer = "yes" THEN Goto("create")
    ELSE IF answer = "no" THEN Return(StatusErr("Operation cancelled!"))
    ELSE IF confirmation = "none" THEN Goto("confirm")
    ELSE Return(StatusErr("Unable to get user prompt!"))

\* Where the run goes after the answer of the overwrite prompt.
AfterConfirm(answer) ==
    IF answer = "yes" THEN Goto("create")
    ELSE IF answer = "no" THEN Return(StatusErr("Operation cancelled!"))
    ELSE Return(StatusErr("Unable to get user prompt!"))

\* if output_path.exists() { Confirm ... }
ConfirmOverwrite ==
    /\ pc = "confirm"
    /\ Step("confirm")
    /\ \E e \in BOOLEAN :
        /\ outExisted' = IF e THEN "yes" ELSE "no"
        /\ IF e
           THEN \E answer \in ConfirmAnswers :
                    /\ confirmation' = answer
                    /\ failedPrompt' = IF answer = "err" THEN "confirm" ELSE failedPrompt
                    /\ AfterConfirm(answer)
           ELSE /\ confirmation' = "none"
                /\ failedPrompt' = failedPrompt
                /\ Goto("create")
    /\ UNCHANGED << args, decrypt, output_path, fileExisted, destCreates,
                    keyRead, choice, s_cost, t_cost, settings,
                    workerVars, progressVars, termVars >>

\* fs::File::create(&output_path): creates or truncates the destination.
CreateOutput ==
    /\ pc = "create"
    /\ Step("create")
    /\ \E ok \in BOOLEAN :
        IF ok
        THEN /\ destCreates' = destCreates + 1
             /\ Goto("password")
        ELSE /\ destCreates' = destCreates
             /\ Return(StatusErr("Could not access"))
    /\ UNCHANGED << args, decrypt, output_path, fileExisted, outExisted, confirmation,
                    promptVars, workerVars, progressVars, termVars >>

\* dialoguer::Password ... interact()
PromptPassword ==
    /\ pc = "password"
    /\ Step("password")
    /\ \E ok \in BOOLEAN :
        IF ok
        THEN /\ keyRead' = TRUE
             /\ failedPrompt' = failedPrompt
             /\ Goto("progress_new")
        ELSE /\ keyRead' = FALSE
             /\ failedPrompt' = "password"
             /\ Return(StatusErr("Unable to read password!"))
    /\ UNCHANGED << args, pathVars, choice, s_cost, t_cost, settings,
                    workerVars, progressVars, termVars >>

\* ------------------------------------------------------- main: lines 193-290
\* Where main goes after creating the progress state: `if decrypt`.
AfterProgressAlwaysSelect(dec) == "select"
AfterProgress(dec) == IF dec THEN "spawn_decrypt" ELSE "select"

\* let progress = Progress::new(); progress.set_state("Starting")
ProgressNew ==
    /\ pc = "progress_new"
    /\ Step("progress")
    /\ progress' = [label |-> 0, writer |-> "main"]
    /\ writers' = writers \cup {"main"}
    /\ Goto(AfterProgress(decrypt))
    /\ UNCHANGED << args, pathVars, promptVars, workerVars, termVars >>

\* thread::spawn of the decrypt closure.
SpawnDecrypt ==
    /\ pc = "spawn_decrypt"
    /\ Step("spawn")
    /\ worker' = "running"
    /\ spawns' = spawns + 1
    /\ Goto("hide_cursor")
    /\ UNCHANGED << args, pathVars, promptVars, engineResult, engineSettings,
                    threadResult, labels, progressVars, termVars >>

\* Select ... interact().unwrap(): an index, or a panic on Err.  The index is
\* a usize; the match below handles every value, so one value past the
\* entries of `choices` is drawn too.
SelectLevel ==
    /\ pc = "select"
    /\ Step("select")
    /\ \E ok \in BOOLEAN :
        IF ok
        THEN \E c \in 0..NumChoices :
                /\ choice' = c
                /\ failedPrompt' = failedPrompt
                /\ Goto("match_choice")
        ELSE /\ choice' = choice
             /\ failedPrompt' = "select"
             /\ Panic
    /\ UNCHANGED << args, pathVars, keyRead, s_cost, t_cost, settings,
                    workerVars, progressVars, termVars >>

\* let settings = match choice { 0 | 1 | 2 | 3 | _ }
MatchChoice ==
    /\ pc = "match_choice"
    /\ Step("match")
    /\ IF choice = 0 THEN settings' = TestingSettings /\ Goto("spawn_encrypt")
       ELSE IF choice = 1 THEN settings' = DefaultSettings /\ Goto("spawn_encrypt")
       ELSE IF choice = 2 THEN settings' = StrongSettings /\ Goto("spawn_encrypt")
       ELSE IF choice = 3 THEN settings' = settings /\ Goto("prompt_s_cost")
       ELSE settings' = settings /\ Return(StatusErr("Invalid Choice"))
    /\ UNCHANGED << args, pathVars, keyRead, choice, s_cost, t_cost, failedPrompt,
                    workerVars, progressVars, termVars >>

\* Input::<usize> "s_cost"
PromptSCost ==
    /\ pc = "prompt_s_cost"
    /\ Step("s_cost")
    /\ \E ok \in BOOLEAN :
        IF ok
        THEN \E v \in CustomValues :
                s_cost' = v /\ failedPrompt' = failedPrompt /\ Goto("prompt_t_cost")
        ELSE /\ s_cost' = s_cost
             /\ failedPrompt' = "s_cost"
             /\ Return(StatusErr("Unable to get user prompt!"))
    /\ UNCHANGED << args, pathVars, keyRead, choice, t_cost, settings,
                    workerVars, progressVars, termVars >>

\* Input::<usize> "t_cost"
PromptTCost ==
    /\ pc = "prompt_t_cost"
    /\ Step("t_cost")
    /\ \E ok \in BOOLEAN :
        IF ok
        THEN \E v \in CustomValues :
                t_cost' = v /\ failedPrompt' = failedPrompt /\ Goto("prompt_step_delta")
        ELSE /\ t_cost' = t_cost
             /\ failedPrompt' = "t_cost"
             /\ Return(StatusErr("Unable to get user prompt!"))
    /\ UNCHANGED << args, pathVars, keyRead, choice, s_cost, settings,
                    workerVars, progressVars, termVars >>

\* Input::<usize> "step_delta", then CryptSettings { s_cost, t_cost, step_delta }
PromptStepDelta ==
    /\ pc = "prompt_step_delta"
    /\ Step("step_delta")
    /\ \E ok \in BOOLEAN :
        IF ok
        THEN \E v \in CustomValues :
                /\ settings' = CustomSettings(s_cost, t_cost, v)
                /\ failedPrompt' = failedPrompt
                /\ Goto("spawn_encrypt")
        ELSE /\ settings' = settings
             /\ failedPrompt' = "step_delta"
             /\ Return(StatusErr("Unable to get user prompt!"))
    /\ UNCHANGED << args, pathVars, keyRead, choice, s_cost, t_cost,
                    workerVars, progressVars, termVars >>

\* thread::spawn of the encrypt closure; `settings` moves into it.
SpawnEncrypt ==
    /\ pc = "spawn_encrypt"
    /\ Step("spawn")
    /\ worker' = "running"
    /\ spawns' = spawns + 1
    /\ engineSettings' = settings
    /\ Goto("hide_cursor")
    /\ UNCHANGED << args, pathVars, promptVars, engineResult, threadResult, labels,
                    progressVars, termVars >>

\* ------------------------------------------------------------- the worker
\* The process is alive: main has neither returned through report nor panicked.
Alive == pc \notin {"done", "crashed"}

\* The engine writes a stage label through the handle it was given.
EngineSetState ==
    /\ Alive
    /\ worker = "running"
    /\ labels < MaxLabels
    /\ labels' = labels + 1
    /\ progress' = [label |-> labels + 1, writer |-> "worker"]
    /\ writers' = writers \cup {"worker"}
    /\ UNCHANGED << args, pc, pathVars, promptVars, worker, spawns, engineResult,
                    engineSettings, threadResult, termVars, endVars, log >>

\* The engine call returns and the closure turns its result into a status.
WorkerReturn ==
    /\ Alive
    /\ worker = "running"
    /\ \E res \in (IF decrypt THEN DecryptResults ELSE EncryptResults) :
        /\ engineResult' = res
        /\ threadResult' = IF decrypt THEN DecryptStatus(res) ELSE EncryptStatus(res)
    /\ worker' = "finished"
    /\ UNCHANGED << args, pc, pathVars, promptVars, spawns, engineSettings, labels,
                    progressVars, termVars, endVars, log >>

\* The engine call panics: the closure returns nothing.
WorkerPanic ==
    /\ Alive
    /\ worker = "running"
    /\ worker' = "panicked"
    /\ engineResult' = "panic"
    /\ UNCHANGED << args, pc, pathVars, promptVars, spawns, engineSettings,
                    threadResult, labels, progressVars, termVars, endVars, log >>

\* A panicked worker not counted as finished.
IsFinishedOnlyOnReturn == worker = "finished"

\* thread.is_finished()
IsFinished == worker \in {"finished", "panicked"}

\* ------------------------------------------------------- main: lines 292-306
\* out.hide_cursor().unwrap()
HideCursor ==
    /\ pc = "hide_cursor"
    /\ Step("hide_cursor")
    /\ \E ok \in BOOLEAN :
        IF ok
        THEN cursorHidden' = TRUE /\ Goto("loop_check")
        ELSE cursorHidden' = cursorHidden /\ Panic
    /\ UNCHANGED << args, pathVars, promptVars, workerVars, progressVars,
                    renders, rendersAfterFinish, lastRendered >>

\* while !thread.is_finished()
LoopCheck ==
    /\ pc = "loop_check"
    /\ Goto(IF IsFinished THEN "join" ELSE "render")
    /\ UNCHANGED << args, pathVars, promptVars, workerVars, progressVars, termVars, log >>

Min(a, b) == IF a < b THEN a ELSE b

\* A render that writes the label it draws back through its handle.
RenderResettingLabel ==
    /\ pc = "render"
    /\ \E ok \in BOOLEAN :
        IF ok
        THEN /\ renders' = Min(renders + 1, MaxRenders)
             /\ rendersAfterFinish' = IF worker # "running" THEN rendersAfterFinish + 1
                                      ELSE rendersAfterFinish
             /\ lastRendered' = progress.label
             /\ progress' = [label |-> 0, writer |-> "main"]
             /\ writers' = writers \cup {"main"}
             /\ Goto("sleep")
        ELSE /\ UNCHANGED << renders, rendersAfterFinish, lastRendered, progressVars >>
             /\ Panic
    /\ UNCHANGED << args, pathVars, promptVars, workerVars, cursorHidden, log >>

\* print_progress_bar(&mut out, h, w, progress.clone()).unwrap()
Render ==
    /\ pc = "render"
    /\ \E ok \in BOOLEAN :
        IF ok
        THEN /\ renders' = Min(renders + 1, MaxRenders)
             /\ rendersAfterFinish' = IF worker # "running" THEN rendersAfterFinish + 1
                                      ELSE rendersAfterFinish
             /\ lastRendered' = progress.label
             /\ Goto("sleep")
        ELSE /\ UNCHANGED << renders, rendersAfterFinish, lastRendered >>
             /\ Panic
    /\ UNCHANGED << args, pathVars, promptVars, workerVars, progressVars, cursorHidden, log >>

\* thread::sleep(100 ms)
Sleep ==
    /\ pc = "sleep"
    /\ Goto("loop_check")
    /\ UNCHANGED << args, pathVars, promptVars, workerVars, progressVars, termVars, log >>

\* What thread.join() gives main to return.
JoinStatus == IF worker = "finished" THEN threadResult
              ELSE StatusErr("Unable to join thread!")

\* if let Ok(thread_status) = thread.join() { ... } else { Err }
Join ==
    /\ pc = "join"
    /\ IsFinished
    /\ Step("join")
    /\ Return(JoinStatus)
    /\ UNCHANGED << args, pathVars, promptVars, workerVars, progressVars, termVars >>

\* ------------------------------------------------ Termination::report, 57-73
\* clean_terminal().unwrap(): clear_line, flush, show_cursor; any of them
\* failing returns Err before the cursor is shown, and the unwrap panics.
CleanTerminal ==
    /\ pc = "report"
    /\ Step("clean_terminal")
    /\ cleanupCalls' = cleanupCalls + 1
    /\ \E ok \in BOOLEAN :
        IF ok
        THEN /\ cursorHidden' = FALSE
             /\ pc' = "print"
             /\ exitCode' = exitCode
        ELSE /\ cursorHidden' = cursorHidden
             /\ pc' = "crashed"
             /\ exitCode' = PanicExitCode
    /\ UNCHANGED << args, pathVars, promptVars, workerVars, progressVars,
                    renders, rendersAfterFinish, lastRendered, status, reports, message >>

\* The message of a status.
MessageOf(s) ==
    IF s.tag = "Ok" THEN "Operation successful!"
    ELSE IF s.tag = "Err" THEN s.reason
    ELSE "File not found!"

\* match self { ... eprintln!; ExitCode::from(..) }
PrintStatus ==
    /\ pc = "print"
    /\ Step("print")
    /\ reports' = reports + 1
    /\ message' = MessageOf(status)
    /\ exitCode' = ExitCodeOf(status)
    /\ pc' = "done"
    /\ UNCHANGED << args, pathVars, promptVars, workerVars, progressVars, termVars,
                    status, cleanupCalls >>

\* ------------------------------------------------------------ specification
MainNext ==
    \/ CheckExists \/ ResolveMode \/ OpenInput \/ ChooseOutput \/ SanityCheck
    \/ ConfirmOverwrite \/ CreateOutput \/ PromptPassword \/ ProgressNew
    \/ SpawnDecrypt \/ SelectLevel \/ MatchChoice
    \/ PromptSCost \/ PromptTCost \/ PromptStepDelta \/ SpawnEncrypt
    \/ HideCursor \/ LoopCheck \/ Render \/ Sleep \/ Join
    \/ CleanTerminal \/ PrintStatus

WorkerNext == EngineSetState \/ WorkerReturn \/ WorkerPanic

Next == MainNext \/ WorkerNext

Spec == Init /\ [][Next]_vars

\* The main thread keeps taking steps, and the engine call ends (returns or
\* panics).
FairSpec == Spec /\ WF_vars(MainNext) /\ WF_vars(WorkerReturn \/ WorkerPanic)

\* The run is over.
Ended == pc \in {"done", "crashed"}

\* ------------------------------------------------------------------ claims
\* C1: when the run is over, the process exit code is 2 if and only if the
\* input path did not exist when main checked it.
C1_ExitCode2IffInputMissing ==
    Ended => (exitCode = 2 <=> fileExisted = "no")

\* C2: on every exit path terminal cleanup is called exactly once, the cursor
\* is visible when the process ends, and a status message is printed only
\* after the cleanup.
C2_CleanupOnEveryExitPath ==
    /\ Ended => cleanupCalls = 1 /\ ~cursorHidden
    /\ reports > 0 => cleanupCalls = 1

\* C3: the destination is created or truncated only if the output path
\* differs from the input path and either it did not exist or the user
\* confirmed the overwrite; with equal paths, a declined or a failed
\* confirmation the run never creates it.
C3_DestinationCreatedOnlyWhenAccepted ==
    /\ destCreates <= 1
    /\ destCreates = 1 =>
          /\ output_path # args.file
          /\ outExisted = "no" \/ confirmation = "yes"
    /\ output_path # Empty /\ output_path = args.file => destCreates = 0
    /\ confirmation \in {"no", "err"} => destCreates = 0

C3_Witness_OverwriteConfirmed ==
    destCreates = 1 /\ outExisted = "yes" /\ confirmation = "yes" /\ pc = "done"

\* C4: a run that ends with a precondition failure (missing input, output
\* equal to input, invalid menu choice, failed prompt) has neither created
\* the destination nor spawned the worker.
PreconditionFailures ==
    { StatusFileNotFound,
      StatusErr("Input and output file should be different"),
      StatusErr("Unable to get user prompt!"),
      StatusErr("Unable to read password!"),
      StatusErr("Invalid Choice") }

C4_PreconditionFailuresBeforeAnyWork ==
    status \in PreconditionFailures => destCreates = 0 /\ spawns = 0

\* C5: the worker's status for each engine result: Decrypt Ok(true) is Ok,
\* Ok(false) is Err("Wrong password!"), Err is another Err; Encrypt Ok is Ok,
\* Err is Err.  A wrong password leaves the worker returned normally and is
\* never reported as a join failure.
C5_WorkerResultClassification ==
    /\ worker = "finished" /\ decrypt =>
          /\ engineResult = "OkTrue" => threadResult = StatusOk
          /\ engineResult = "OkFalse" => threadResult = StatusErr("Wrong password!")
          /\ engineResult \in {"ErrIo", "ErrCorrupt"} =>
                /\ threadResult.tag = "Err"
                /\ threadResult.reason # "Wrong password!"
    /\ worker = "finished" /\ ~decrypt =>
          /\ engineResult = "Ok" => threadResult = StatusOk
          /\ engineResult = "ErrIo" => threadResult.tag = "Err"
    /\ engineResult = "OkFalse" =>
          /\ worker = "finished"
          /\ status # NoStatus => status = StatusErr("Wrong password!")
          /\ pc = "done" => message = "Wrong password!" /\ exitCode = 1

C5_Witness_WrongPasswordReported ==
    engineResult = "OkFalse" /\ pc = "done" /\ message = "Wrong password!"

\* C6: every run ends with exit code 2 for a missing input, 0 exactly when
\* the worker was spawned and its engine call succeeded, and 1 otherwise.
Succeeded == worker = "finished" /\ engineResult \in {"OkTrue", "Ok"}

C6_ExitCodeIs0Or1Or2 ==
    Ended =>
        /\ exitCode \in {0, 1, 2}
        /\ exitCode = 0 <=> Succeeded
        /\ exitCode = 2 <=> fileExisted = "no"

\* C7: as soon as any interactive prompt fails, main returns a prompt-failure
\* status (exit code 1): no prompt failure crashes the process or is ignored.
PromptFailureStatuses ==
    { StatusErr("Unable to get user prompt!"), StatusErr("Unable to read password!") }

C7_PromptFailureAbortsWithStatus ==
    failedPrompt # "none" =>
        /\ status \in PromptFailureStatuses
        /\ ExitCodeOf(status) = 1
        /\ spawns = 0

\* C8: at most one worker is spawned, only after the destination was created
\* and the password read; in Encrypt mode only after the settings were
\* selected, and in Decrypt mode the settings selector is never invoked.
SelectorInvoked == \E i \in 1..Len(log) : log[i] \in {"select", "match"}

C8_SingleWorkerAfterPreparation ==
    /\ spawns <= 1
    /\ (worker # "none") <=> (spawns = 1)
    /\ spawns = 1 =>
          /\ destCreates = 1
          /\ keyRead
          /\ ~decrypt => SelectorInvoked /\ settings # NoSettings
                           /\ engineSettings = settings
          /\ decrypt => engineSettings = NoSettings
    /\ decrypt => ~SelectorInvoked /\ choice = -1 /\ settings = NoSettings

C8_Witness_EncryptWorkerRunning ==
    spawns = 1 /\ ~decrypt /\ worker = "running" /\ settings.kind = "literal"

\* C9: join is called only after the worker was seen finished; when the run
\* is over, a worker that returned normally has its status as the final
\* status, and a worker that panicked gives the join failure and exit code 1.
C9_FinalStatusIsWorkerStatus ==
    /\ pc = "join" => IsFinished
    /\ Ended /\ worker = "finished" => status = threadResult
    /\ Ended /\ worker = "panicked" =>
          status = StatusErr("Unable to join thread!") /\ exitCode = 1

\* Under FairSpec every run leaves the render loop and ends.
RunEnds == <>Ended

\* C10: every run reports exactly one status: never two, and a run that is
\* over has reported one.
C10_EndedRunReportedExactlyOnce ==
    /\ reports <= 1
    /\ Ended => reports = 1

\* Positions of a step in the log of the main thread.
Positions(name) == { i \in 1..Len(log) : log[i] = name }

\* C11: the only write of the main thread to the progress state is the
\* initial "Starting" label (label 0), made before the worker is spawned;
\* from the spawn on the worker is the only writer, and a label it wrote is
\* what the shared state holds: the main thread never overwrites it.
C11_WorkerIsSoleWriterAfterSpawn ==
    /\ Cardinality(Positions("progress")) <= 1
    /\ \A i \in Positions("progress") : \A j \in Positions("spawn") : i < j
    /\ worker = "none" => "worker" \notin writers
    /\ progress.writer = "main" => progress.label = 0 /\ labels = 0
    /\ labels >= 1 => progress = [label |-> labels, writer |-> "worker"]

\* C11, as stated: the worker is the one writer of the progress state; the
\* main thread never writes the stage label.
C11_MainNeverWritesLabel == writers \subseteq {"worker"}

\* The render loop, through the coordinator's handle, drew a label the worker
\* wrote through its clone.
C11_Witness_WorkerLabelRendered ==
    lastRendered >= 1 /\ progress.writer = "worker" /\ writers = {"main", "worker"}

\* The name ends in a dot followed by exactly "zep", the dot not being the
\* first character of the name.
EndsInDotZep(p) ==
    /\ Len(p) >= 3
    /\ p[Len(p)] = "zep"
    /\ p[Len(p) - 1] = Dot

\* The mode has been resolved.
ModeResolved == fileExisted = "yes" /\ pc # "resolve_mode"

\* C12: for every existing input and every value of the flag, the resolved
\* mode is Decrypt if the flag is set or the extension is exactly "zep", and
\* Encrypt otherwise.
C12_ModeResolution ==
    ModeResolved => (decrypt <=> (args.decrypt \/ EndsInDotZep(args.file)))

\* The flag forced Decrypt on an input without the container extension, and
\* the run went through.
C12_Witness_FlagForcesDecrypt ==
    /\ pc = "done"
    /\ decrypt /\ args.decrypt
    /\ args.file = <<"a", Dot, "txt">>
    /\ engineResult = "OkTrue"

\* The output path has been chosen.
OutputChosen == Positions("derive") # {}

\* C13: an explicit output path is used verbatim; without one, Encrypt
\* appends ".zep" to the full input name, Decrypt strips exactly the ".zep"
\* of an input that has it, and Decrypt of any other input appends ".unzep".
C13_OutputPathDerivation ==
    OutputChosen =>
        /\ args.output.given => output_path = args.output.path
        /\ ~args.output.given /\ ~decrypt =>
              output_path = args.file \o <<Dot, "zep">>
        /\ ~args.output.given /\ decrypt /\ EndsInDotZep(args.file) =>
              output_path = SubSeq(args.file, 1, Len(args.file) - 2)
        /\ ~args.output.given /\ decrypt /\ ~EndsInDotZep(args.file) =>
              output_path = args.file \o <<Dot, "unzep">>

\* C16: without an explicit output path the derived output path differs from
\* the input path, so the equality check fires only for an explicit output.
C16_DerivedOutputDiffersFromInput ==
    /\ OutputChosen /\ ~args.output.given => output_path # args.file
    /\ status = StatusErr("Input and output file should be different") =>
          args.output.given

\* C14: every CryptSettings value handed to create_container has s_cost,
\* t_cost and step_delta strictly positive (the two presets of the engine
\* crate are carried by name; the values written in main are checked).
C14_EngineSettingsPositive ==
    engineSettings.kind = "literal" =>
        /\ engineSettings.s_cost > 0
        /\ engineSettings.t_cost > 0
        /\ engineSettings.step_delta > 0

\* The steps main takes once it has returned a status.
ReportSteps == {"clean_terminal", "print"}

\* C15: menu index 1 hands the engine the settings of CryptSettings::default(),
\* index 2 hands it s_cost = 4687500 (within a 32-bit usize), t_cost = 3,
\* step_delta = 4, and an index outside 0..3 ends the run at the match with a
\* failure status: no further prompt, no worker.
C15_PresetSelection ==
    /\ spawns = 1 /\ choice = 1 => engineSettings.kind = "default"
    /\ spawns = 1 /\ choice = 2 =>
          /\ engineSettings.kind = "literal"
          /\ engineSettings.s_cost = 4687500
          /\ engineSettings.s_cost \div 2^16 < 2^16
          /\ engineSettings.t_cost = 3
          /\ engineSettings.step_delta = 4
    /\ choice > 3 /\ pc # "match_choice" =>
          /\ status = StatusErr("Invalid Choice")
          /\ spawns = 0
          /\ \A i \in 1..Len(log) : \A j \in Positions("match") :
                i > j => log[i] \in ReportSteps

C15_Witness_StrongEncryptDone ==
    pc = "done" /\ choice = 2 /\ engineSettings.s_cost = 4687500 /\ engineResult = "Ok"

\* The errors read_container can return.
DecryptErrors == {"ErrIo", "ErrCorrupt"}

\* C17: the outcome reported for a failed engine call preserves the engine's
\* reason: the status the worker returns for one error is not the status it
\* would return for a different error.
C17_EngineErrorDetailPreserved ==
    worker = "finished" /\ decrypt /\ engineResult \in DecryptErrors =>
        \A other \in DecryptErrors \ {engineResult} :
            threadResult # DecryptStatus(other)

\* The steps of main in the order of the source.
StepOrder ==
    << "exists", "mode", "open", "derive", "equal", "confirm", "create",
       "password", "progress", "select", "match", "s_cost", "t_cost",
       "step_delta", "spawn", "hide_cursor", "join", "clean_terminal", "print" >>

Rank(name) == CHOOSE i \in 1..Len(StepOrder) : StepOrder[i] = name

\* C18: the steps of a run execute in the fixed order of the source, each at
\* most once (a later log entry always has a higher rank), the level
\* selection only in Encrypt mode, one destination creation, one spawn and
\* one engine call; after a status was returned only the report steps follow.
C18_NoRetryFixedOrder ==
    /\ \A i, j \in 1..Len(log) : i < j => Rank(log[i]) < Rank(log[j])
    /\ decrypt => Positions("select") = {}
    /\ destCreates <= 1 /\ spawns <= 1
    /\ engineResult # "none" => spawns = 1 /\ worker \in {"finished", "panicked"}
    /\ status # NoStatus /\ pc = "report" => log[Len(log)] \notin ReportSteps
    /\ pc \in {"print", "done"} => status # NoStatus

\* A run that took every step once: Encrypt with the Custom level.
C18_Witness_EveryStepOnce == pc = "done" /\ log = StepOrder

\* C19: main goes to join only once the worker has terminated and neither
\* renders nor sleeps after that, so at most one render starts after the
\* worker terminated (one that was already past the loop test).
C19_AtMostOneRenderAfterFinish ==
    /\ rendersAfterFinish <= 1
    /\ pc = "join" => worker # "running"
    /\ Positions("join") # {} => pc \notin {"loop_check", "render", "sleep"}

\* A run that ended without a single render although the worker had written
\* a stage label: the label was never drawn.
C19_Witness_NoRenderLabelUnseen ==
    /\ pc = "done"
    /\ spawns = 1
    /\ renders = 0
    /\ labels = 1
    /\ lastRendered = -1

====
